---- MODULE Spec2Model ----
(***************************************************************************)
(* Three parts of data-juicer, each modelled as a state machine:           *)
(*  - the Star-Graph-Connected-Components (SGCC) of                        *)
(*    tools/distributed_deduplication/dedup_utils.py over Spark RDDs; an   *)
(*    RDD is a multiset and is modelled as a bag (a function from its      *)
(*    elements to their positive multiplicities);                          *)
(*  - BaseModelExecutor.run of data_juicer/core/sandbox/model_executors.py *)
(*    with the asyncio tasks it creates;                                   *)
(*  - RangeSpecifiedFieldSelector.process of                               *)
(*    data_juicer/ops/selector/range_specified_field_selector.py.          *)
(***************************************************************************)
EXTENDS Integers, FiniteSets, Sequences, Bags, TLC

\* find_components
VARIABLES edges, a, b, pc, iters, results

\* BaseModelExecutor: self.watcher, self.watcher.model_exe_log_file, the
\* content of the log file, sys.stdout, what _run does (the lines it prints
\* and whether it raises), the position of run, the two tasks run creates,
\* the lines watch_run has read, and the event loop (the callbacks ready to
\* run, in order, and the tasks waiting on a timer)
VARIABLES watcher, model_exe_log_file, log_file, sys_stdout, run_lines,
          run_raises, run_pc, watch_task, run_task, watch_pos, ready, sleeping

\* RangeSpecifiedFieldSelector: the selector object, the dataset given to
\* process, the dataset it returns, and its position
VARIABLES selector, dataset, selected, process_pc

dedupVars == <<edges, a, b, pc, iters, results>>

executorVars ==
    <<watcher, model_exe_log_file, log_file, sys_stdout, run_lines,
      run_raises, run_pc, watch_task, run_task, watch_pos, ready, sleeping>>

selectorVars == <<selector, dataset, selected, process_pc>>

vars == <<dedupVars, executorVars, selectorVars>>

\* Python's None, and a value that is not None
None == <<>>
Some(v) == <<v>>

\* no find_components call is under way
NoDedup ==
    /\ edges = <<>>
    /\ a = <<>>
    /\ b = <<>>
    /\ pc = "absent"
    /\ iters = 0
    /\ results = <<>>

\* no model executor has been constructed
NoExecutor ==
    /\ watcher = None
    /\ model_exe_log_file = None
    /\ log_file = None
    /\ sys_stdout = "original_stdout"
    /\ run_lines = 0
    /\ run_raises = FALSE
    /\ run_pc = "absent"
    /\ watch_task = "absent"
    /\ run_task = "absent"
    /\ watch_pos = 0
    /\ ready = <<>>
    /\ sleeping = {}

\* no selector has been constructed
NoSelector ==
    /\ selector = None
    /\ dataset = <<>>
    /\ selected = <<>>
    /\ process_pc = "absent"

(* ------------------------------ bounds --------------------------------- *)
\* NodeIDs of the input edges are drawn from 1..MaxNode
MaxNode == 4
\* the input RDD holds at most MaxEdges pairs, counted with multiplicity
MaxEdges == 3
\* the driver loop is explored for at most MaxIter iterations
MaxIter == 6
\* the scenario inputs (chains, stars) use NodeIDs 1..MaxScenarioNode
MaxScenarioNode == 5

Nodes == 1..MaxNode

(* --------------------------- RDD operations ---------------------------- *)
RECURSIVE SumOver(_, _)
\* sum of f[e] over the elements e of the finite set S
SumOver(S, f) ==
    IF S = {} THEN 0
    ELSE LET e == CHOOSE x \in S : TRUE IN f[e] + SumOver(S \ {e}, f)

\* a Python list (a sequence) as the multiset of its elements
ListToBag(s) ==
    [x \in {s[i] : i \in DOMAIN s} |-> Cardinality({i \in DOMAIN s : s[i] = x})]

\* the least element of a nonempty set of integers: Python's min()
Min(S) == CHOOSE m \in S : \A n \in S : m <= n

\* the greatest element of a nonempty set of integers: Python's max()
Max(S) == CHOOSE m \in S : \A n \in S : n <= m

\* rdd.flatMap(f): the multiset sum of f[e] over every occurrence of e;
\* f[e] is the multiset of the list the Python function returns for e
FlatMap(f, rdd) ==
    LET out == UNION {DOMAIN f[e] : e \in DOMAIN rdd}
    IN  [y \in out |->
            SumOver(DOMAIN rdd,
                    [e \in DOMAIN rdd |->
                        rdd[e] * (IF y \in DOMAIN f[e] THEN f[e][y] ELSE 0)])]

\* rdd.map(f): one output element per occurrence of an input element
Map(f, rdd) ==
    LET out == {f[e] : e \in DOMAIN rdd}
    IN  [y \in out |->
            SumOver(DOMAIN rdd,
                    [e \in DOMAIN rdd |-> IF f[e] = y THEN rdd[e] ELSE 0])]

\* rdd.groupByKey(): one group <<key, values>> per key, values a multiset
GroupByKey(rdd) ==
    SetToBag({ <<k, [v \in {e[2] : e \in {d \in DOMAIN rdd : d[1] = k}}
                        |-> rdd[<<k, v>>]]>>
               : k \in {e[1] : e \in DOMAIN rdd} })

\* distinct() left out: the collection as it is
Distinct_missing(rdd) == rdd

\* rdd.distinct()
Distinct(rdd) == SetToBag(DOMAIN rdd)

\* rdd.subtract(other): the elements of rdd that do not occur in other
Subtract(rdd, other) == [e \in (DOMAIN rdd) \ (DOMAIN other) |-> rdd[e]]

\* rdd.union(other)
Union(rdd, other) == rdd (+) other

(* ------------------------ the four star functions ---------------------- *)
\* large_star_map emitting the pair as stored, without its reversed copy
large_star_map_one_way(edge) ==
    ListToBag(<< <<edge[1], edge[2]>> >>)

large_star_map(edge) ==
    ListToBag(<< <<edge[1], edge[2]>>, <<edge[2], edge[1]>> >>)

\* large_star_reduce emitting the pair as (minimum, n)
large_star_reduce_swapped(group) ==
    LET x         == group[1]
        neighbors == group[2]
        nodes     == SetToBag({x}) (+) neighbors
        minimum   == Min(DOMAIN nodes)
    IN  [p \in {<<minimum, n>> : n \in {n \in DOMAIN nodes : n > x}}
            |-> nodes[p[2]]]

\* large_star_reduce keeping n >= x instead of n > x
large_star_reduce_ge(group) ==
    LET x         == group[1]
        neighbors == group[2]
        nodes     == SetToBag({x}) (+) neighbors
        minimum   == Min(DOMAIN nodes)
    IN  [p \in {<<n, minimum>> : n \in {n \in DOMAIN nodes : n >= x}}
            |-> nodes[p[1]]]

\* large_star_reduce with the minimum off by one
large_star_reduce_off_by_one(group) ==
    LET x         == group[1]
        neighbors == group[2]
        nodes     == SetToBag({x}) (+) neighbors
        minimum   == Min(DOMAIN nodes) - 1
    IN  [p \in {<<n, minimum>> : n \in {n \in DOMAIN nodes : n > x}}
            |-> nodes[p[1]]]

\* large_star_reduce pointing the larger neighbours at x itself instead of
\* at the minimum of the neighbourhood
large_star_reduce_no_min(group) ==
    LET x         == group[1]
        neighbors == group[2]
        nodes     == SetToBag({x}) (+) neighbors
    IN  [p \in {<<n, x>> : n \in {n \in DOMAIN nodes : n > x}}
            |-> nodes[p[1]]]

large_star_reduce(group) ==
    LET x         == group[1]
        neighbors == group[2]
        nodes     == SetToBag({x}) (+) neighbors
        minimum   == Min(DOMAIN nodes)
    IN  [p \in {<<n, minimum>> : n \in {n \in DOMAIN nodes : n > x}}
            |-> nodes[p[1]]]

\* small_star_map keeping the pair as stored
small_star_map_no_swap(edge) == <<edge[1], edge[2]>>

small_star_map(edge) ==
    LET x == edge[1]
        y == edge[2]
    IN  IF y <= x THEN <<x, y>> ELSE <<y, x>>

\* small_star_reduce without the filter n != minimum
small_star_reduce_unfiltered(group) ==
    LET x         == group[1]
        neighbors == group[2]
        nodes     == SetToBag({x}) (+) neighbors
        minimum   == Min(DOMAIN nodes)
    IN  [p \in {<<n, minimum>> : n \in DOMAIN nodes} |-> nodes[p[1]]]

\* small_star_reduce re-pointing only the key x, not its neighbours
small_star_reduce_key_only(group) ==
    LET x         == group[1]
        neighbors == group[2]
        nodes     == SetToBag({x}) (+) neighbors
        minimum   == Min(DOMAIN nodes)
    IN  [p \in {<<n, minimum>> : n \in {n \in {x} : n # minimum}}
            |-> nodes[p[1]]]

\* small_star_reduce leaving every neighbour attached to the key x instead of
\* re-pointing the group at its minimum
small_star_reduce_no_min(group) ==
    LET x         == group[1]
        neighbors == group[2]
    IN  [p \in {<<x, n>> : n \in {n \in DOMAIN neighbors : n # x}}
            |-> neighbors[p[2]]]

small_star_reduce(group) ==
    LET x         == group[1]
        neighbors == group[2]
        nodes     == SetToBag({x}) (+) neighbors
        minimum   == Min(DOMAIN nodes)
    IN  [p \in {<<n, minimum>> : n \in {n \in DOMAIN nodes : n # minimum}}
            |-> nodes[p[1]]]

\* line 71-72: a.flatMap(large_star_map).groupByKey()
\*              .flatMap(large_star_reduce).distinct()
LargeStarPhase(rdd) ==
    LET mapped  == FlatMap([e \in DOMAIN rdd |-> large_star_map(e)], rdd)
        grouped == GroupByKey(mapped)
    IN  Distinct(FlatMap([g \in DOMAIN grouped |-> large_star_reduce(g)],
                         grouped))

\* line 73-74: b.map(small_star_map).groupByKey()
\*              .flatMap(small_star_reduce).distinct()
SmallStarPhase(rdd) ==
    LET mapped  == Map([e \in DOMAIN rdd |-> small_star_map(e)], rdd)
        grouped == GroupByKey(mapped)
    IN  Distinct(FlatMap([g \in DOMAIN grouped |-> small_star_reduce(g)],
                         grouped))

\* line 75: a.subtract(b).union(b.subtract(a))
Changes(x, y) == Union(Subtract(x, y), Subtract(y, x))

(* ------------------------------ inputs --------------------------------- *)
PairSet == Nodes \X Nodes

RECURSIVE BagsUpTo(_)
\* every multiset of at most k pairs of PairSet
BagsUpTo(k) ==
    IF k = 0 THEN {EmptyBag}
    ELSE LET prev == BagsUpTo(k - 1)
         IN  prev \cup {bg (+) SetToBag({p}) : bg \in prev, p \in PairSet}

InputRDDs == BagsUpTo(MaxEdges)

(* --------------------------- find_components --------------------------- *)
TypeOK ==
    /\ pc \in {"absent", "large", "small", "check", "done",
               "phases", "large_applied", "small_applied"}
    /\ iters \in 0..MaxIter
    /\ run_pc \in {"absent", "start", "await_run_task", "await_watch_task",
                   "returned", "raised"}
    /\ watch_task \in {"absent", "pending", "done", "raised"}
    /\ run_task \in {"absent", "pending", "done", "raised"}
    /\ sys_stdout \in {"original_stdout", "log_f"}
    /\ sleeping \subseteq {"watch_task"}
    /\ process_pc \in {"absent", "process", "done"}

Init ==
    /\ edges \in InputRDDs
    /\ a = edges
    /\ b = EmptyBag
    /\ pc = "large"
    /\ iters = 0
    /\ results = EmptyBag
    /\ NoExecutor
    /\ NoSelector

\* line 70: the loop body is entered (within the explored iterations)
CanLargeStar == pc = "large" /\ iters < MaxIter

\* line 70-72: enter the loop body, b = LargeStarPhase(a)
LargeStarStep ==
    /\ CanLargeStar
    /\ b' = LargeStarPhase(a)
    /\ iters' = iters + 1
    /\ pc' = "small"
    /\ UNCHANGED <<edges, a, results>>
    /\ UNCHANGED <<executorVars, selectorVars>>

CanSmallStar == pc = "small"

\* the small star applied to the input of the iteration instead of to the
\* large-star output b
SmallStarStep_from_current ==
    /\ CanSmallStar
    /\ a' = SmallStarPhase(a)
    /\ pc' = "check"
    /\ UNCHANGED <<edges, b, iters, results>>
    /\ UNCHANGED <<executorVars, selectorVars>>

\* line 73-74: a = SmallStarPhase(b)
SmallStarStep ==
    /\ CanSmallStar
    /\ a' = SmallStarPhase(b)
    /\ pc' = "check"
    /\ UNCHANGED <<edges, b, iters, results>>
    /\ UNCHANGED <<executorVars, selectorVars>>

\* line 76: len(changes) == 0
CanBreak == pc = "check" /\ Changes(a, b) = EmptyBag

\* line 75-77, 79-80: no changes: break, collect a and return it
Break ==
    /\ CanBreak
    /\ results' = a
    /\ pc' = "done"
    /\ UNCHANGED <<edges, a, b, iters>>
    /\ UNCHANGED <<executorVars, selectorVars>>

\* the loop repeating whether or not changes are left
CanContinue_unconditional == pc = "check"

\* line 76: len(changes) != 0
CanContinue == pc = "check" /\ Changes(a, b) # EmptyBag

\* line 75-76, 70: changes left: next iteration
Continue ==
    /\ CanContinue
    /\ pc' = "large"
    /\ UNCHANGED <<edges, a, b, iters, results>>
    /\ UNCHANGED <<executorVars, selectorVars>>

\* some step of find_components can be taken
CanStep == CanLargeStar \/ CanSmallStar \/ CanBreak \/ CanContinue

Next == LargeStarStep \/ SmallStarStep \/ Break \/ Continue

Spec == Init /\ [][Next]_vars

RECURSIVE Driver(_, _)
\* line 69-80 as a function of the input: the loop body applied until the
\* change set is empty (fuel bounds the unrolling)
Driver(cur, fuel) ==
    LET afterLarge == LargeStarPhase(cur)
        afterSmall == SmallStarPhase(afterLarge)
    IN  IF Changes(afterSmall, afterLarge) = EmptyBag \/ fuel = 0
        THEN afterSmall
        ELSE Driver(afterSmall, fuel - 1)

find_components(rdd) == Driver(rdd, MaxIter)

(* --------------------------- scenario inputs --------------------------- *)
\* the chain 1 - 2 - ... - k, every edge stored in one of its two orientations
ChainInputs(k) ==
    {SetToBag({IF f[i] THEN <<i, i + 1>> ELSE <<i + 1, i>> : i \in 1..(k - 1)}) :
        f \in [1..(k - 1) -> BOOLEAN]}

\* the stars with hub h and a nonempty set of leaves below h, every edge
\* stored in one of its two orientations
StarInputs(h) ==
    UNION {{SetToBag({IF f[l] THEN <<h, l>> ELSE <<l, h>> : l \in L}) :
                f \in [L -> BOOLEAN]} :
           L \in (SUBSET (1..(h - 1))) \ {{}}}

\* scenario A of the test plan
ScenarioA == SetToBag({<<1, 2>>, <<2, 3>>, <<4, 5>>})

ScenarioInputs ==
    {ScenarioA}
    \cup UNION {ChainInputs(k) : k \in 2..MaxScenarioNode}
    \cup UNION {StarInputs(h) : h \in 2..MaxScenarioNode}

InitScenario ==
    /\ edges \in ScenarioInputs
    /\ a = edges
    /\ b = EmptyBag
    /\ pc = "large"
    /\ iters = 0
    /\ results = EmptyBag
    /\ NoExecutor
    /\ NoSelector

SpecScenario == InitScenario /\ [][Next]_vars

(* ----------------------- the phases on their own ------------------------ *)
InitPhases ==
    /\ edges \in InputRDDs
    /\ a = EmptyBag
    /\ b = EmptyBag
    /\ pc = "phases"
    /\ iters = 0
    /\ results = EmptyBag
    /\ NoExecutor
    /\ NoSelector

\* line 71-72 applied to an edge collection
ApplyLargeStar ==
    /\ pc = "phases"
    /\ b' = LargeStarPhase(edges)
    /\ pc' = "large_applied"
    /\ UNCHANGED <<edges, a, iters, results>>
    /\ UNCHANGED <<executorVars, selectorVars>>

\* line 73-74 applied to an edge collection
ApplySmallStar ==
    /\ pc = "phases"
    /\ a' = SmallStarPhase(edges)
    /\ pc' = "small_applied"
    /\ UNCHANGED <<edges, b, iters, results>>
    /\ UNCHANGED <<executorVars, selectorVars>>

NextPhases == ApplyLargeStar \/ ApplySmallStar

SpecPhases == InitPhases /\ [][NextPhases]_vars

(* ------------------- the phases with delivery orders -------------------- *)
RECURSIVE Perms(_)
\* every order in which the elements of a multiset can be delivered as a
\* list: list(neighbors) of a group of groupByKey
Perms(bag) ==
    IF bag = EmptyBag THEN {<<>>}
    ELSE UNION {{<<e>> \o s : s \in Perms(bag (-) SetToBag({e}))} :
                e \in DOMAIN bag}

\* the elements of a list
Range(s) == {s[i] : i \in DOMAIN s}

\* large_star_reduce taking the minimum of x and the first neighbour only
large_star_reduce_list_first(group) ==
    LET x         == group[1]
        neighbors == group[2]
        nodes     == <<x>> \o neighbors
        minimum   == Min({x, Head(neighbors)})
        keep(n)   == n > x
        kept      == SelectSeq(nodes, keep)
    IN  [i \in DOMAIN kept |-> <<kept[i], minimum>>]

\* line 42-46 on the list of neighbours as it is delivered
large_star_reduce_list(group) ==
    LET x         == group[1]
        neighbors == group[2]
        nodes     == <<x>> \o neighbors
        minimum   == Min(Range(nodes))
        keep(n)   == n > x
        kept      == SelectSeq(nodes, keep)
    IN  [i \in DOMAIN kept |-> <<kept[i], minimum>>]

\* small_star_reduce taking the minimum of x and the last neighbour only
small_star_reduce_list_last(group) ==
    LET x         == group[1]
        neighbors == group[2]
        nodes     == <<x>> \o neighbors
        minimum   == Min({x, neighbors[Len(neighbors)]})
        keep(n)   == n # minimum
        kept      == SelectSeq(nodes, keep)
    IN  [i \in DOMAIN kept |-> <<kept[i], minimum>>]

\* line 57-61 on the list of neighbours as it is delivered
small_star_reduce_list(group) ==
    LET x         == group[1]
        neighbors == group[2]
        nodes     == <<x>> \o neighbors
        minimum   == Min(Range(nodes))
        keep(n)   == n # minimum
        kept      == SelectSeq(nodes, keep)
    IN  [i \in DOMAIN kept |-> <<kept[i], minimum>>]

\* the multisets large_star_reduce can emit for one group, over the orders
\* in which its neighbours can be delivered
LargeGroupOutcomes(g) ==
    {ListToBag(large_star_reduce_list(<<g[1], s>>)) : s \in Perms(g[2])}

\* the multisets small_star_reduce can emit for one group
SmallGroupOutcomes(g) ==
    {ListToBag(small_star_reduce_list(<<g[1], s>>)) : s \in Perms(g[2])}

RECURSIVE CombineOutcomes(_, _)
\* flatMap over the groups: one outcome per group, summed; outcomes[g] is the
\* set of multisets group g can emit
CombineOutcomes(groups, outcomes) ==
    IF groups = {} THEN {EmptyBag}
    ELSE LET g == CHOOSE x \in groups : TRUE
         IN  {o (+) rest : o \in outcomes[g],
                           rest \in CombineOutcomes(groups \ {g}, outcomes)}

\* line 71-72 with every order of the input pairs and of the neighbours of
\* every key: the collections b can be
OrderedLargeStarPhase(rdd) ==
    LET mapped  == FlatMap([e \in DOMAIN rdd |-> large_star_map(e)], rdd)
        grouped == DOMAIN GroupByKey(mapped)
    IN  {Distinct(out) :
            out \in CombineOutcomes(grouped,
                        [g \in grouped |-> LargeGroupOutcomes(g)])}

\* line 73-74 with every order of the pairs and of the neighbours of every
\* key: the collections a can be
OrderedSmallStarPhase(rdd) ==
    LET mapped  == Map([e \in DOMAIN rdd |-> small_star_map(e)], rdd)
        grouped == DOMAIN GroupByKey(mapped)
    IN  {Distinct(out) :
            out \in CombineOutcomes(grouped,
                        [g \in grouped |-> SmallGroupOutcomes(g)])}

\* line 70-72 under some delivery order
OrderedLargeStarStep ==
    /\ CanLargeStar
    /\ b' \in OrderedLargeStarPhase(a)
    /\ iters' = iters + 1
    /\ pc' = "small"
    /\ UNCHANGED <<edges, a, results>>
    /\ UNCHANGED <<executorVars, selectorVars>>

\* line 73-74 under some delivery order
OrderedSmallStarStep ==
    /\ CanSmallStar
    /\ a' \in OrderedSmallStarPhase(b)
    /\ pc' = "check"
    /\ UNCHANGED <<edges, b, iters, results>>
    /\ UNCHANGED <<executorVars, selectorVars>>

NextOrdered == OrderedLargeStarStep \/ OrderedSmallStarStep \/ Break \/ Continue

SpecOrdered == Init /\ [][NextOrdered]_vars

RECURSIVE DriverIterations(_, _)
\* line 69-77: the number of times the loop body runs for an input (fuel
\* bounds the unrolling)
DriverIterations(cur, fuel) ==
    LET afterLarge == LargeStarPhase(cur)
        afterSmall == SmallStarPhase(afterLarge)
    IN  IF Changes(afterSmall, afterLarge) = EmptyBag \/ fuel = 0
        THEN 1
        ELSE 1 + DriverIterations(afterSmall, fuel - 1)

(* ------------------------- BaseModelExecutor.run ----------------------- *)
\* _run prints at most MaxLogLines lines
MaxLogLines == 3

\* line 23-25: the line that tells the end of the model execution
END_OF_MODEL_EXEC == "<DJ-Sandbox> End of ModelExecutor's running <DJ-Sandbox>"

\* line 19-25, 27: an executor constructed with or without a watcher, run
\* called on it; _run (line 67-68, overridden by every executor) prints
\* run_lines lines and then returns or raises
InitExecutor ==
    /\ NoDedup
    /\ NoSelector
    /\ watcher \in {None, Some("watcher")}
    /\ model_exe_log_file = None
    /\ log_file = None
    /\ sys_stdout = "original_stdout"
    /\ run_lines \in 0..MaxLogLines
    /\ run_raises \in BOOLEAN
    /\ run_pc = "start"
    /\ watch_task = "absent"
    /\ run_task = "absent"
    /\ watch_pos = 0
    /\ ready = <<>>
    /\ sleeping = {}

\* line 32-37 and 32-54: run up to its first await: watch_task is created,
\* then run_task, without a watcher right away, with a watcher once the log
\* file is named, opened for writing and made sys.stdout; create_task
\* schedules the first step of each task in the order of creation
RunStart ==
    /\ run_pc = "start"
    /\ watch_task' = "pending"
    /\ run_task' = "pending"
    /\ ready' = ready \o <<"watch_task", "run_task">>
    /\ IF watcher = None
       THEN UNCHANGED <<model_exe_log_file, log_file, sys_stdout>>
       ELSE /\ model_exe_log_file' = Some("log_f_name")
            /\ log_file' = Some(<<>>)
            /\ sys_stdout' = "log_f"
    /\ run_pc' = "await_run_task"
    /\ UNCHANGED <<watcher, run_lines, run_raises, watch_pos, sleeping>>
    /\ UNCHANGED <<dedupVars, selectorVars>>

\* line 67-68 and its overrides (line 146-150, 186-210, 228-246, 259-274):
\* the event loop runs run_task: _run has no await, so it runs to its end in
\* one step, printing to sys.stdout, and returns or raises; run, which
\* awaits it, is made ready
RunTaskStep ==
    /\ ready # <<>>
    /\ Head(ready) = "run_task"
    /\ log_file' = IF sys_stdout = "log_f"
                   THEN Some(log_file[1] \o [i \in 1..run_lines |-> "line"])
                   ELSE log_file
    /\ run_task' = IF run_raises THEN "raised" ELSE "done"
    /\ ready' = Tail(ready) \o <<"run">>
    /\ UNCHANGED <<watcher, model_exe_log_file, sys_stdout, run_lines,
                   run_raises, run_pc, watch_task, watch_pos, sleeping>>
    /\ UNCHANGED <<dedupVars, selectorVars>>

\* the position of the first END_OF_MODEL_EXEC line of the log after the
\* lines already read, 0 when there is none
EndPosition ==
    LET ends == {i \in (watch_pos + 1)..Len(log_file[1]) :
                    log_file[1][i] = END_OF_MODEL_EXEC}
    IN  IF ends = {} THEN 0 ELSE Min(ends)

\* line 70-85: the event loop runs watch_task up to its next await: it
\* reads self.watcher.model_exe_log_file, which raises AttributeError on a
\* None watcher; it sleeps while the file does not exist or has no new
\* line; it hands every new line to _watch_run and returns at the line
\* END_OF_MODEL_EXEC, which makes a run that awaits it ready
WatchTaskStep ==
    /\ ready # <<>>
    /\ Head(ready) = "watch_task"
    /\ IF watcher = None
       THEN /\ watch_task' = "raised"
            /\ ready' = Tail(ready)
            /\ UNCHANGED <<watch_pos, sleeping>>
       ELSE IF log_file = None
       THEN /\ sleeping' = sleeping \cup {"watch_task"}
            /\ ready' = Tail(ready)
            /\ UNCHANGED <<watch_task, watch_pos>>
       ELSE IF EndPosition # 0
       THEN /\ watch_pos' = EndPosition
            /\ watch_task' = "done"
            /\ ready' = Tail(ready) \o
                   (IF run_pc = "await_watch_task" THEN <<"run">> ELSE <<>>)
            /\ UNCHANGED sleeping
       ELSE /\ watch_pos' = Len(log_file[1])
            /\ sleeping' = sleeping \cup {"watch_task"}
            /\ ready' = Tail(ready)
            /\ UNCHANGED watch_task
    /\ UNCHANGED <<watcher, model_exe_log_file, log_file, sys_stdout,
                   run_lines, run_raises, run_pc, run_task>>
    /\ UNCHANGED <<dedupVars, selectorVars>>

\* line 85 and the wait for a new line: the sleep of watch_task is over
WakeWatchTask ==
    /\ "watch_task" \in sleeping
    /\ sleeping' = sleeping \ {"watch_task"}
    /\ ready' = Append(ready, "watch_task")
    /\ UNCHANGED <<watcher, model_exe_log_file, log_file, sys_stdout,
                   run_lines, run_raises, run_pc, watch_task, run_task,
                   watch_pos>>
    /\ UNCHANGED <<dedupVars, selectorVars>>

\* line 36-38 and 53-59: run resumes from "await run_task".  An exception
\* of _run is raised again here and leaves run, through the finally clause
\* when there is a watcher; nothing on that path awaits or cancels
\* watch_task.  Without a watcher run returns None.  With a watcher it
\* prints END_OF_MODEL_EXEC to the log and awaits watch_task.
AfterRunTask ==
    /\ ready # <<>>
    /\ Head(ready) = "run"
    /\ run_pc = "await_run_task"
    /\ ready' = Tail(ready)
    /\ IF run_task = "raised"
       THEN /\ run_pc' = "raised"
            /\ sys_stdout' = "original_stdout"
            /\ UNCHANGED log_file
       ELSE IF watcher = None
       THEN /\ run_pc' = "returned"
            /\ UNCHANGED <<sys_stdout, log_file>>
       ELSE /\ log_file' = Some(Append(log_file[1], END_OF_MODEL_EXEC))
            /\ IF watch_task = "done"
               THEN run_pc' = "returned" /\ sys_stdout' = "original_stdout"
               ELSE run_pc' = "await_watch_task" /\ UNCHANGED sys_stdout
    /\ UNCHANGED <<watcher, model_exe_log_file, run_lines, run_raises,
                   watch_task, run_task, watch_pos, sleeping>>
    /\ UNCHANGED <<dedupVars, selectorVars>>

\* line 55-60: run resumes from "await watch_task", restores sys.stdout and
\* returns
AfterWatchTask ==
    /\ ready # <<>>
    /\ Head(ready) = "run"
    /\ run_pc = "await_watch_task"
    /\ ready' = Tail(ready)
    /\ run_pc' = "returned"
    /\ sys_stdout' = "original_stdout"
    /\ UNCHANGED <<watcher, model_exe_log_file, log_file, run_lines,
                   run_raises, watch_task, run_task, watch_pos, sleeping>>
    /\ UNCHANGED <<dedupVars, selectorVars>>

NextExecutor ==
    \/ RunStart
    \/ RunTaskStep
    \/ WatchTaskStep
    \/ WakeWatchTask
    \/ AfterRunTask
    \/ AfterWatchTask

SpecExecutor == InitExecutor /\ [][NextExecutor]_vars

\* run has finished, by a return or by an exception
RunFinished == run_pc \in {"returned", "raised"}

(* ------------------ RangeSpecifiedFieldSelector.process ---------------- *)
\* a dataset holds at most MaxLen samples
MaxLen == 3
\* the field values of the samples are drawn from 1..MaxValue, the value
\* bounds from 0..MaxValue + 1
MaxValue == 3
\* the rank bounds are drawn from 1..MaxRank
MaxRank == 1
\* the percentile bounds are drawn from k / PercentSteps, k in 0..PercentSteps
PercentSteps == 2

\* an optional parameter: None or a value of S
Optional(S) == {None} \cup {Some(v) : v \in S}

\* line 15-62: the selectors that can be constructed; a percentile is
\* held as its numerator over PercentSteps
Selectors ==
    [field_key        : {"", "field"},
     lower_value      : Optional(0..(MaxValue + 1)),
     upper_value      : Optional(0..(MaxValue + 1)),
     lower_percentile : Optional(0..PercentSteps),
     upper_percentile : Optional(0..PercentSteps),
     lower_rank       : Optional(1..MaxRank),
     upper_rank       : Optional(1..MaxRank)]

\* the datasets given to process: the value of the field of every sample,
\* in the order of the dataset
Datasets == UNION {[1..n -> 1..MaxValue] : n \in 0..MaxLen}

\* line 93-94: sorted(zip(field_value_list, range(len))): the place of sample
\* i in the order by value, then by position
SortedPlace(field_value_list, i) ==
    1 + Cardinality({j \in DOMAIN field_value_list :
                        \/ field_value_list[j] < field_value_list[i]
                        \/ /\ field_value_list[j] = field_value_list[i]
                           /\ j < i})

\* line 93-94: indices after the sort (positions of samples, counted from 1)
SortedIndices(field_value_list) ==
    [k \in DOMAIN field_value_list |->
        CHOOSE i \in DOMAIN field_value_list :
            SortedPlace(field_value_list, i) = k]

\* bisect.bisect_left(sorted_list, x): the number of elements below x
bisect_left(sorted_list, x) ==
    Cardinality({i \in DOMAIN sorted_list : sorted_list[i] < x})

\* bisect.bisect_right(sorted_list, x): the number of elements not above x
bisect_right(sorted_list, x) ==
    Cardinality({i \in DOMAIN sorted_list : sorted_list[i] <= x})

\* int(percentile * len(dataset)) for the percentile k / PercentSteps
PercentileRank(k, len) == (k * len) \div PercentSteps

\* Python's seq[lo:hi] for 0 <= lo and 0 <= hi, positions counted from 0
Slice(seq, lo, hi) == SubSeq(seq, lo + 1, Min({hi, Len(seq)}))

\* line 64-117: the samples process returns, as their field values.  The
\* field values are numbers (what stats_to_number gives for a number is the
\* number), lower_bound and upper_bound are positions counted from 0.
process(self, ds) ==
    IF Len(ds) <= 1 \/ self.field_key = "" THEN ds
    ELSE IF /\ self.lower_value = None /\ self.upper_value = None
            /\ self.lower_percentile = None /\ self.upper_percentile = None
            /\ self.lower_rank = None /\ self.upper_rank = None
    THEN ds
    ELSE
    LET indices          == SortedIndices(ds)
        field_value_list == [k \in DOMAIN ds |-> ds[indices[k]]]
        lower0 == 0
        upper0 == Len(ds) - 1
        lower1 == IF self.lower_value # None
                  THEN bisect_left(field_value_list, self.lower_value[1])
                  ELSE lower0
        lower2 == IF self.lower_percentile # None
                  THEN Max({lower1,
                            PercentileRank(self.lower_percentile[1], Len(ds))})
                  ELSE lower1
        lower_bound == IF self.lower_rank # None
                       THEN Max({lower2, self.lower_rank[1]})
                       ELSE lower2
        upper1 == IF self.upper_value # None
                  THEN bisect_right(field_value_list, self.upper_value[1]) - 1
                  ELSE upper0
        upper2 == IF self.upper_percentile # None
                  THEN Min({upper1,
                            PercentileRank(self.upper_percentile[1], Len(ds))})
                  ELSE upper1
        upper3 == IF self.upper_rank # None
                  THEN Min({upper2, self.upper_rank[1]})
                  ELSE upper2
        upper_bound  == Max({lower_bound, upper3})
        select_index == Slice(indices, lower_bound, upper_bound + 1)
    IN  [k \in DOMAIN select_index |-> ds[select_index[k]]]

\* a selector has been constructed and process is called on a dataset
InitSelector ==
    /\ NoDedup
    /\ NoExecutor
    /\ selector \in {Some(sel) : sel \in Selectors}
    /\ dataset \in Datasets
    /\ selected = <<>>
    /\ process_pc = "process"

\* line 64-117: process returns the selected dataset
Process ==
    /\ process_pc = "process"
    /\ selected' = process(selector[1], dataset)
    /\ process_pc' = "done"
    /\ UNCHANGED <<selector, dataset>>
    /\ UNCHANGED <<dedupVars, executorVars>>

NextSelector == Process

SpecSelector == InitSelector /\ [][NextSelector]_vars

(* ------------------------- reference definitions ----------------------- *)
\* the NodeIDs that occur in an edge collection
NodesOf(rdd) == {e[1] : e \in DOMAIN rdd} \cup {e[2] : e \in DOMAIN rdd}

\* the neighbours of n in the undirected graph of an edge collection
Adj(rdd, n) ==
    {e[2] : e \in {d \in DOMAIN rdd : d[1] = n}}
    \cup {e[1] : e \in {d \in DOMAIN rdd : d[2] = n}}

RECURSIVE Reach(_, _)
\* the nodes reachable from the set S
Reach(rdd, S) ==
    LET T == S \cup UNION {Adj(rdd, n) : n \in S}
    IN  IF T = S THEN S ELSE Reach(rdd, T)

\* the representative a sequential union-find gives n: the least NodeID of
\* the connected component of n
RefRep(rdd, n) == Min(Reach(rdd, {n}))

\* the representatives a result gives n, a node without an entry being its
\* own representative
RepsOf(res, n) ==
    LET ms == {e[2] : e \in {d \in DOMAIN res : d[1] = n}}
    IN  IF ms = {} THEN {n} ELSE ms

Done == pc = "done"

(* -------------------------------- claims ------------------------------- *)

\* C1: the mapping find_components returns (a node without an entry read as
\* its own representative) maps every node of an input edge to the least
\* NodeID of its connected component, as a sequential union-find does.
C1_EqualsUnionFind ==
    Done => \A n \in NodesOf(edges) : RepsOf(results, n) = {RefRep(edges, n)}

\* C2: for every entry (n, m) of the result, m is the least NodeID among the
\* nodes reachable from n in the input edge set.
C2_EntriesAreComponentMinimum ==
    Done => \A e \in DOMAIN results : e[2] = RefRep(edges, e[1])

\* a chain 1 - 2 - ... - k stored as the pairs (i, i+1)
IsChain(rdd) ==
    \E k \in 2..MaxScenarioNode : DOMAIN rdd = {<<i, i + 1>> : i \in 1..(k - 1)}

\* C3: for a chain with edges (i, i+1), i = 1..k-1, every node of the chain
\* is mapped to representative 1 (a node without an entry read as its own
\* representative).
C3_ChainMapsToOne ==
    (Done /\ IsChain(edges)) =>
        \A n \in NodesOf(edges) : RepsOf(results, n) = {1}

\* a star whose hub is its largest node: every pair joins the hub h and a
\* smaller node, in either orientation
IsHubLargestStar(rdd) ==
    /\ rdd # EmptyBag
    /\ \E h \in NodesOf(rdd) :
          \A e \in DOMAIN rdd :
              \/ e[1] = h /\ e[2] < h
              \/ e[2] = h /\ e[1] < h

\* C4: for a star whose hub is its largest node, the hub and every leaf are
\* mapped to the smallest NodeID of the star (a node without an entry read as
\* its own representative).
C4_StarMapsToSmallest ==
    (Done /\ IsHubLargestStar(edges)) =>
        \A n \in NodesOf(edges) : RepsOf(results, n) = {Min(NodesOf(edges))}

\* the star of the test plan has been resolved
C4_Witness ==
    /\ Done
    /\ DOMAIN edges = {<<5, 1>>, <<5, 2>>, <<5, 3>>, <<5, 4>>}
    /\ DOMAIN results = {<<2, 1>>, <<3, 1>>, <<4, 1>>, <<5, 1>>}

\* C5 as stated: for the edges {(1,2),(2,3),(4,5)} the output entries are
\* {1:1, 2:1, 3:1, 4:4, 5:4} and node 6 has no entry.
C5_ScenarioAAsStated ==
    (Done /\ edges = ScenarioA) =>
        /\ DOMAIN results = {<<1, 1>>, <<2, 1>>, <<3, 1>>, <<4, 4>>, <<5, 4>>}
        /\ \A e \in DOMAIN results : e[1] # 6

\* C5: for the edges {(1,2),(2,3),(4,5)} the output entries are exactly
\* {2:1, 3:1, 5:4}; the component minima 1 and 4 have no entry, like node 6,
\* and read as their own representatives they give {1:1, 2:1, 3:1, 4:4, 5:4}.
C5_ScenarioA ==
    (Done /\ edges = ScenarioA) =>
        /\ DOMAIN results = {<<2, 1>>, <<3, 1>>, <<5, 4>>}
        /\ \A e \in DOMAIN results : results[e] = 1
        /\ \A n \in {1, 4, 6} : \A e \in DOMAIN results : e[1] # n
        /\ [n \in 1..6 |-> RepsOf(results, n)] =
               <<{1}, {1}, {1}, {4}, {4}, {6}>>

\* scenario A has been resolved
C5_Witness == Done /\ edges = ScenarioA /\ results # EmptyBag

\* C6: for every finite input the driver loop terminates: after finitely
\* many LargeStar+SmallStar iterations the change set is empty and
\* find_components returns.  Every step advances (iters, pc) and iters never
\* exceeds MaxIter, so every run is finite; it ends in the returned state
\* exactly when no other state is left without a step to take, that is when
\* the loop never needs more than MaxIter iterations.
C6_Terminates == Done \/ CanStep

\* the loop has exited after more than one iteration
C6_Witness == Done /\ iters >= 2

\* C7: the driver enforces a configurable hard iteration cap: whatever cap
\* is configured, once that many iterations have run and the change set is
\* still not empty, the driver stops with a fatal error instead of iterating
\* further.
C7_HardIterationCap ==
    [][\A cap \in 1..MaxIter :
          (pc = "check" /\ iters >= cap /\ Changes(a, b) # EmptyBag)
              => pc' = "failed"]_vars

\* C8: the result is idempotent: LargeStarPhase followed by SmallStarPhase
\* applied to the returned edge set yields an identical edge set.
C8_ResultIdempotent ==
    Done => SmallStarPhase(LargeStarPhase(results)) = results

\* every undirected edge of an edge collection once, as (smaller, larger)
Canonical(rdd) ==
    SetToBag({<<Min({e[1], e[2]}), Max({e[1], e[2]})>> : e \in DOMAIN rdd})

\* C9: the output does not depend on how an undirected edge is represented:
\* with repeated copies, reversed pairs or swapped endpoints the output is
\* that of the input holding every undirected edge once.
C9_RepresentationIndependent ==
    Done => results = find_components(Canonical(edges))

\* an input holding a repeated pair together with its reversed pair has
\* been resolved to a nonempty result
C9_Witness ==
    /\ Done
    /\ results # EmptyBag
    /\ \E e \in DOMAIN edges :
          /\ e[1] # e[2]
          /\ edges[e] >= 2
          /\ <<e[2], e[1]>> \in DOMAIN edges

\* C10: every NodeID of the output, node or representative, occurs in some
\* input edge; a NodeID of no input edge never appears in the output.
C10_OutputNodesFromInput ==
    Done => NodesOf(results) \subseteq NodesOf(edges)

\* a nonempty result for an input that leaves some NodeID unmentioned
C10_Witness ==
    /\ Done
    /\ results # EmptyBag
    /\ \E n \in Nodes : n \notin NodesOf(edges) /\ n \notin NodesOf(results)

\* C11 as stated: with an empty input edge collection find_components
\* returns an empty output and performs zero iterations of the loop.
C11_EmptyInputZeroIterations ==
    (Done /\ edges = EmptyBag) => (results = EmptyBag /\ iters = 0)

\* C11: with an empty input edge collection find_components returns an
\* empty output after exactly one iteration of the loop: both phases run
\* once on the empty collection before the empty change set ends the loop.
C11_EmptyInputOneIteration ==
    (Done /\ edges = EmptyBag) =>
        (results = EmptyBag /\ iters = 1 /\ a = EmptyBag /\ b = EmptyBag)

\* the empty input has been resolved
C11_Witness == Done /\ edges = EmptyBag /\ results = EmptyBag

\* the self-loop pairs of an edge collection removed
WithoutSelfLoops(rdd) ==
    [e \in {d \in DOMAIN rdd : d[1] # d[2]} |-> rdd[e]]

\* an edge collection holds no pair (u, u)
NoSelfPairs(rdd) == \A e \in DOMAIN rdd : e[1] # e[2]

\* C12: self-loop pairs (u, u) of the input cannot affect the result: the
\* output is that of the input without its self-loops, and no self-loop pair
\* survives past the first phase.
C12_SelfLoopsIgnored ==
    /\ Done => results = find_components(WithoutSelfLoops(edges))
    /\ iters >= 1 => NoSelfPairs(b)
    /\ (iters >= 1 /\ pc # "small") => NoSelfPairs(a)

\* an input holding a self-loop on a node of another edge has been resolved
\* to a nonempty result
C12_Witness ==
    /\ Done
    /\ results # EmptyBag
    /\ \E e \in DOMAIN edges :
          /\ e[1] = e[2]
          /\ \E d \in DOMAIN edges : d[1] # d[2] /\ e[1] \in {d[1], d[2]}

\* the number of pairs of a result whose first element is n
EntriesOf(res, n) == Cardinality({e \in DOMAIN res : e[1] = n})

\* C13 as stated: the output holds, for every NodeID of an input edge,
\* exactly one pair whose first element is that NodeID.
C13_OneEntryPerInputNode ==
    Done => \A n \in NodesOf(edges) : EntriesOf(results, n) = 1

\* C13: the output holds exactly one pair (node, representative) for every
\* NodeID of an input edge that is not the minimum of its connected
\* component, each pair occurring once, and no pair for a component minimum
\* (a node that occurs only in self-loops is the minimum of its component).
C13_OneEntryPerNonMinimum ==
    Done =>
        /\ \A n \in NodesOf(edges) :
              EntriesOf(results, n) = (IF RefRep(edges, n) = n THEN 0 ELSE 1)
        /\ \A e \in DOMAIN results : results[e] = 1

\* a result with an entry for a node and none for the minimum of its
\* component
C13_Witness ==
    /\ Done
    /\ \E n \in NodesOf(edges) :
          /\ EntriesOf(results, n) = 1
          /\ EntriesOf(results, RefRep(edges, n)) = 0

\* C14: no entry of the output has node = representative, whatever the
\* input (self-loops and duplicates included); small_star_reduce never
\* emits such a pair.
C14_NoSelfEntries ==
    /\ Done => NoSelfPairs(results)
    /\ pc = "check" => NoSelfPairs(a)

\* an input with a self-loop and a duplicated pair has been resolved to a
\* nonempty result
C14_Witness ==
    /\ Done
    /\ results # EmptyBag
    /\ \E e \in DOMAIN edges : e[1] = e[2]
    /\ \E e \in DOMAIN edges : edges[e] >= 2

\* C15: in every iteration the driver computes afterLarge (b) as
\* LargeStarPhase of the current collection and afterSmall (a) as
\* SmallStarPhase of that b; it exits exactly when the symmetric difference
\* of the two is empty, returning afterSmall, and otherwise repeats with
\* afterSmall as the current collection.  As steps: a large-star step yields
\* b = LargeStarPhase(a) and leaves a alone; the small-star step that follows
\* yields a = SmallStarPhase(b) from that same b; the check returns a when
\* the change set is empty and only then; otherwise it goes back to the
\* large star with a and b untouched.
C15_DriverLoop ==
    [][/\ pc = "large" =>
              (pc' = "small" /\ b' = LargeStarPhase(a) /\ a' = a)
       /\ pc = "small" =>
              (pc' = "check" /\ a' = SmallStarPhase(b) /\ b' = b
                  /\ b = LargeStarPhase(a))
       /\ pc = "check" =>
              /\ a = SmallStarPhase(b)
              /\ a' = a /\ b' = b
              /\ IF Changes(a, b) = EmptyBag
                 THEN pc' = "done" /\ results' = a
                 ELSE pc' = "large" /\ results' = results]_vars

\* the loop is about to repeat with a small-star output that differs from
\* the large-star output it was computed from
C15_Witness ==
    /\ pc = "large"
    /\ iters >= 1
    /\ a = SmallStarPhase(b)
    /\ a # b

\* section 4.1 of the design: {(n, min({x} + N(x))) : n in N(x), n > x},
\* N(x) = Adj(rdd, x) the neighbours of x in either orientation
RefLargeStar(rdd) ==
    UNION {{<<n, Min({x} \cup Adj(rdd, x))>> :
                n \in {k \in Adj(rdd, x) : k > x}} :
           x \in NodesOf(rdd)}

\* C16: LargeStarPhase output equals {(n, min({x} + N(x))) : x a node of the
\* input, n in N(x), n > x}, N(x) the nodes sharing an input edge with x in
\* either orientation; nothing else is emitted, and x is never emitted as a
\* first element from its own group.
C16_LargeStarReference ==
    pc = "small" => DOMAIN b = RefLargeStar(a)

\* a large star applied to an input with a self-loop and a reversed pair,
\* with a nonempty output
C16_Witness ==
    /\ pc = "small"
    /\ b # EmptyBag
    /\ \E e \in DOMAIN a : e[1] = e[2]
    /\ \E e \in DOMAIN a : e[1] # e[2] /\ <<e[2], e[1]>> \in DOMAIN a

\* the keys of the small star: the larger endpoint of every pair
SmallStarKeys(rdd) == {Max({e[1], e[2]}) : e \in DOMAIN rdd}

\* N(x) of the small star: the other endpoint of every pair whose larger
\* endpoint is x
SmallStarNeighbours(rdd, x) ==
    {Min({e[1], e[2]}) : e \in {d \in DOMAIN rdd : Max({d[1], d[2]}) = x}}

\* section 4.2 of the design: {(n, m) : n in {x} + N(x), n /= m} with
\* m = min({x} + N(x))
RefSmallStar(rdd) ==
    UNION {{<<n, Min({x} \cup SmallStarNeighbours(rdd, x))>> :
                n \in ({x} \cup SmallStarNeighbours(rdd, x))
                          \ {Min({x} \cup SmallStarNeighbours(rdd, x))}} :
           x \in SmallStarKeys(rdd)}

\* C17: SmallStarPhase output equals the reference set: every input edge
\* oriented so that the larger endpoint is the key, grouped by key x into
\* N(x), and (n, m) emitted with m = min({x} + N(x)) for every n in
\* {x} + N(x) with n /= m; the key x itself is emitted when it is not the
\* minimum.
C17_SmallStarReference ==
    pc = "small_applied" => DOMAIN a = RefSmallStar(edges)

\* a small star applied to an input with a pair stored smaller endpoint
\* first, whose key is emitted as a first element
C17_Witness ==
    /\ pc = "small_applied"
    /\ \E e \in DOMAIN edges :
          /\ e[1] < e[2]
          /\ \E d \in DOMAIN a : d[1] = e[2]

\* C18: every pair (n, m) emitted by LargeStarPhase satisfies m <= n, for
\* every input edge collection (duplicates, reversed pairs and self-loops
\* included).
C18_LargeStarPointsDown ==
    \A e \in DOMAIN b : e[2] <= e[1]

\* a nonempty large-star output for an input with a duplicate, a reversed
\* pair and a self-loop
C18_Witness ==
    /\ pc = "small"
    /\ b # EmptyBag
    /\ \E e \in DOMAIN a : a[e] >= 2
    /\ \E e \in DOMAIN a : e[1] = e[2]
    /\ \E e \in DOMAIN a : e[1] > e[2]

\* n is the first element of some pair of an edge collection
HasEntry(rdd, n) == \E e \in DOMAIN rdd : e[1] = n

\* the smallest m with (n, m) in an edge collection
MinRep(rdd, n) == Min({e[2] : e \in {d \in DOMAIN rdd : d[1] = n}})

\* C19: the pointers are monotone non-increasing across iterations: for
\* every node n with an entry in the large-star outputs of iterations i and
\* i+1, the smallest m with (n, m) in the output of iteration i+1 is at most
\* the smallest m with (n, m) in the output of iteration i.
C19_PointersMonotone ==
    [][(pc = "large" /\ iters >= 1) =>
          \A n \in NodesOf(b) :
              (HasEntry(b, n) /\ HasEntry(b', n)) =>
                  MinRep(b', n) <= MinRep(b, n)]_vars

\* a second iteration is about to lower the pointer of some node
C19_Witness ==
    /\ pc = "large"
    /\ iters >= 1
    /\ \E n \in NodesOf(b) :
          /\ HasEntry(b, n)
          /\ HasEntry(LargeStarPhase(a), n)
          /\ MinRep(LargeStarPhase(a), n) < MinRep(b, n)

\* every pair of an edge collection occurs once
NoDuplicates(rdd) == \A e \in DOMAIN rdd : rdd[e] = 1

\* C20: after every phase of every iteration the working edge collection
\* holds no duplicate pair: each (n, m) occurs at most once in afterLarge (b)
\* and in afterSmall (a), whatever the multiplicities of the input.
C20_PhasesDistinct ==
    /\ iters >= 1 => NoDuplicates(b)
    /\ (iters >= 1 /\ pc # "small") => NoDuplicates(a)
    /\ Done => NoDuplicates(results)

\* both phases have run on an input with a repeated pair and left a
\* nonempty collection
C20_Witness ==
    /\ pc = "check"
    /\ a # EmptyBag
    /\ b # EmptyBag
    /\ \E e \in DOMAIN edges : e[1] # e[2] /\ edges[e] >= 2

\* C21: the result of find_components does not depend on the order of the
\* input edges or on the order in which groupByKey delivers the neighbours
\* of a key: every run, whatever these orders, returns the same output set
\* after the same number of iterations, and passes through the same
\* collections on the way.
C21_OrderIndependent ==
    /\ pc = "small" => b = LargeStarPhase(a)
    /\ pc = "check" => a = SmallStarPhase(b)
    /\ Done => /\ results = find_components(edges)
               /\ iters = DriverIterations(edges, MaxIter)

\* a run of two iterations has returned for an input in which some key has
\* two different neighbours, so that more than one delivery order exists
C21_Witness ==
    /\ Done
    /\ iters >= 2
    /\ results # EmptyBag
    /\ \E n \in NodesOf(edges) : Cardinality(Adj(edges, n) \ {n}) >= 2

\* C22: when the driver loop exits, the returned edge set is a star forest:
\* no NodeID that occurs as a representative (second element of a pair)
\* also occurs as a node (first element of a pair), so the result holds no
\* chain (c, b), (b, a).
C22_StarForest ==
    Done => \A e \in DOMAIN results : ~HasEntry(results, e[2])

\* n and m are connected (undirected, transitively) in an edge collection
Connected(rdd, n, m) == m \in Reach(rdd, {n})

\* an edge collection connects the NodeIDs of the input exactly as the
\* input does, and each of its pairs stays within one input component
SameConnectivity(rdd) ==
    /\ \A n \in NodesOf(edges) :
          {m \in NodesOf(edges) : Connected(rdd, n, m)} = Reach(edges, {n})
    /\ \A e \in DOMAIN rdd :
          /\ {e[1], e[2]} \subseteq NodesOf(edges)
          /\ e[2] \in Reach(edges, {e[1]})

\* C23: each phase preserves connectivity: at every iteration two NodeIDs
\* are connected in the output of LargeStarPhase (b), and likewise of
\* SmallStarPhase (a), if and only if they are connected in the original
\* input edge set; no output entry (n, m) joins two nodes from different
\* input components.
C23_ConnectivityPreserved ==
    /\ iters >= 1 => SameConnectivity(b)
    /\ (iters >= 1 /\ pc # "small") => SameConnectivity(a)
    /\ Done => SameConnectivity(results)

\* a second iteration has run both phases on an input with two components,
\* one of them of three nodes or more
C23_Witness ==
    /\ pc = "check"
    /\ iters >= 2
    /\ \E n, m \in NodesOf(edges) : ~Connected(edges, n, m)
    /\ \E n \in NodesOf(edges) : Cardinality(Reach(edges, {n})) >= 3

\* C24: the result returned by find_components is a function of the node:
\* no NodeID appears as the first element of two pairs with different
\* representatives.
C24_ResultIsFunction ==
    Done => \A e, d \in DOMAIN results : e[1] = d[1] => e[2] = d[2]

\* a result with entries for two nodes or more, returned for an input in
\* which some node has two smaller neighbours
C24_Witness ==
    /\ Done
    /\ Cardinality({e[1] : e \in DOMAIN results}) >= 2
    /\ \E n \in NodesOf(edges) :
          Cardinality({k \in Adj(edges, n) : k < n}) >= 2

\* the NodeIDs of the pairs of an edge collection that are not self-loops
NonLoopNodesOf(rdd) == NodesOf(WithoutSelfLoops(rdd))

\* C25: every NodeID that appears in some non-self-loop input edge and is
\* not the minimum of its connected component is the first element of at
\* least one pair of the result; only component minima are left without an
\* entry.
C25_NonMinimaHaveEntries ==
    Done =>
        /\ \A n \in NonLoopNodesOf(edges) :
              RefRep(edges, n) # n => HasEntry(results, n)
        /\ \A n \in NodesOf(edges) :
              ~HasEntry(results, n) => RefRep(edges, n) = n

\* a result returned after two iterations or more in which the largest
\* node of a component of three nodes or more has an entry and the minimum
\* of that component has none
C25_Witness ==
    /\ Done
    /\ iters >= 2
    /\ \E n \in NonLoopNodesOf(edges) :
          /\ Cardinality(Reach(edges, {n})) >= 3
          /\ n = Max(Reach(edges, {n}))
          /\ HasEntry(results, n)
          /\ ~HasEntry(results, RefRep(edges, n))

\* C26: on every path by which BaseModelExecutor.run finishes (return
\* without a watcher, return with a watcher, or _run raising), the
\* watch_run task created at its start is no longer pending: it has
\* completed or been cancelled, and it never runs against a None watcher
\* (where its first statement raises AttributeError).
C26_WatchTaskSettled ==
    /\ RunFinished => watch_task \in {"done", "cancelled"}
    /\ watcher = None => watch_task # "raised"

\* only lower_value and/or upper_value are set on the selector
ValueBoundsOnly(self) ==
    /\ self.field_key # ""
    /\ self.lower_value # None \/ self.upper_value # None
    /\ self.lower_percentile = None /\ self.upper_percentile = None
    /\ self.lower_rank = None /\ self.upper_rank = None

\* C27: process on a dataset of at least two samples with lower_value
\* and/or upper_value set (no percentile or rank bound) selects only samples
\* whose field value v satisfies lower_value <= v <= upper_value, also when
\* no sample lies within the bounds.
C27_SelectsWithinValueBounds ==
    (process_pc = "done" /\ Len(dataset) >= 2 /\ ValueBoundsOnly(selector[1]))
        => \A k \in DOMAIN selected :
              /\ selector[1].lower_value # None =>
                     selector[1].lower_value[1] <= selected[k]
              /\ selector[1].upper_value # None =>
                     selected[k] <= selector[1].upper_value[1]

====
